---- MODULE Spec2Model ----
(***************************************************************************)
(* A model of the domain-availability engine of domain-age-checker:        *)
(* DomainCheckService (registry, RDAP resolver, WHOIS fallback, batch      *)
(* orchestrator) and the keyword normalisation of lib/keywordUtils.        *)
(*                                                                         *)
(* Strings that the code inspects character by character (keywords, TLD    *)
(* labels, domain names) are sequences of one-character strings.  Server   *)
(* URLs, WHOIS host names and WHOIS patterns are only passed around and    *)
(* compared, and are plain strings.                                        *)
(***************************************************************************)
EXTENDS Integers, Sequences, FiniteSets, TLC

VARIABLES
    rdapServerMap,     \* Map<string,string[]>, in insertion order
    tldConfigs,        \* TldConfig[]
    lastUpdateTime,    \* epoch of the last successful refresh, 0 = never
    updateInProgress,  \* the refresh in-flight flag
    rdapErrorCount,    \* RDAP checks that exhausted every server
    rdapTotalCount,    \* incremented together with rdapErrorCount
    initPc,            \* where initialize() stands
    update,            \* the executing updateRdapData(): its caller, or NoUpdate
    cacheFile,         \* contents of app/data/rdap-cache.json
    now,               \* Date.now(), in days
    calls,             \* the checkDomains() invocations, by slot
    kwInput,           \* keyword handed to normalizeKeyword
    kwOutput,          \* what normalizeKeyword returned for it
    tldReturns,        \* the last two returns of getEnabledTlds()
    routes             \* the two route modules: their flags and their calls

vars == <<rdapServerMap, tldConfigs, lastUpdateTime, updateInProgress,
          rdapErrorCount, rdapTotalCount, initPc, update, cacheFile, now,
          calls, kwInput, kwOutput, tldReturns, routes>>

registryVars == <<rdapServerMap, tldConfigs, lastUpdateTime, updateInProgress,
                  rdapErrorCount, rdapTotalCount, initPc, update, cacheFile, now>>

\* the variables that only the small scenarios change
normVars == <<kwInput, kwOutput, tldReturns, routes>>

(***************************************************************************)
(* Bounds of the model.                                                    *)
(***************************************************************************)
\* longest keyword enumerated for normalizeKeyword
MaxLen == 3
\* requests the one client of the detailed flow sends, one after the other
MaxFlowCalls == 2
\* overlapping checkDomains() invocations of the batch scenario
MaxCalls == 2
\* candidates of the invocations under way, taken together
MaxCandidates == 7
\* the day on which the process starts
StartDay == 40

(***************************************************************************)
(* Characters and strings.                                                 *)
(***************************************************************************)
LowerChars == {"a", "c", "h", "m", "o", "p", "s", "y", "z"}
UpperChars == {"A", "C", "M", "O", "S"}
DigitChars == {"1"}
SpaceChars == {" "}
Hyphen == "-"
PunctChars == {"!", "."}

\* String.prototype.toLowerCase on one character
ToLowerChar(c) ==
    CASE c = "A" -> "a"
      [] c = "C" -> "c"
      [] c = "M" -> "m"
      [] c = "O" -> "o"
      [] c = "S" -> "s"
      [] OTHER -> c

toLowerCase(s) == [i \in 1..Len(s) |-> ToLowerChar(s[i])]

RECURSIVE TrimStart(_)
TrimStart(s) ==
    IF s # <<>> /\ Head(s) \in SpaceChars THEN TrimStart(Tail(s)) ELSE s

RECURSIVE TrimEnd(_)
TrimEnd(s) ==
    IF s # <<>> /\ s[Len(s)] \in SpaceChars
    THEN TrimEnd(SubSeq(s, 1, Len(s) - 1))
    ELSE s

\* String.prototype.trim
trim(s) == TrimEnd(TrimStart(s))

\* .replace(/\s+/g, '')
RemoveSpaces(s) == SelectSeq(s, LAMBDA c : c \notin SpaceChars)

\* .replace(/[^a-z0-9-]/g, '-')
ReplaceInvalid(s) ==
    [i \in 1..Len(s) |->
        IF s[i] \in LowerChars \cup DigitChars \cup {Hyphen} THEN s[i] ELSE Hyphen]

\* .replace(/-{2,}/g, '-')
RECURSIVE CollapseHyphens(_)
CollapseHyphens(s) ==
    IF Len(s) < 2 THEN s
    ELSE IF s[1] = Hyphen /\ s[2] = Hyphen THEN CollapseHyphens(Tail(s))
    ELSE <<s[1]>> \o CollapseHyphens(Tail(s))

\* .replace(/^-|-$/g, '')
StripEdgeHyphens(s) ==
    LET a == IF s # <<>> /\ Head(s) = Hyphen THEN Tail(s) ELSE s
    IN  IF a # <<>> /\ a[Len(a)] = Hyphen THEN SubSeq(a, 1, Len(a) - 1) ELSE a

\* the variant that turns whitespace into a hyphen instead of removing it
normalizeKeywordHyphenating(keyword) ==
    IF keyword = <<>> THEN <<>>
    ELSE StripEdgeHyphens(CollapseHyphens(ReplaceInvalid(
             toLowerCase(trim(keyword)))))

normalizeKeyword(keyword) ==
    IF keyword = <<>> THEN <<>>
    ELSE StripEdgeHyphens(CollapseHyphens(ReplaceInvalid(RemoveSpaces(
             toLowerCase(trim(keyword))))))

\* `${keyword}.${tld}`
domainName(keyword, tld) == keyword \o <<".">> \o tld

(***************************************************************************)
(* The registry: Map<string, string[]> kept in insertion order.            *)
(***************************************************************************)
COM == <<"c", "o", "m">>
NET == <<"n", "e", "t">>
ORG == <<"o", "r", "g">>
IO == <<"i", "o">>
APP == <<"a", "p", "p">>
DEV == <<"d", "e", "v">>
AI == <<"a", "i">>
CO == <<"c", "o">>
ME == <<"m", "e">>
XYZ == <<"x", "y", "z">>
TECH == <<"t", "e", "c", "h">>
SITE == <<"s", "i", "t", "e">>
ONLINE == <<"o", "n", "l", "i", "n", "e">>
STORE == <<"s", "t", "o", "r", "e">>
SHOP == <<"s", "h", "o", "p">>
\* a TLD outside the critical set
ZZ == <<"z", "z">>

MapKeys(m) == {m[i].tld : i \in 1..Len(m)}
MapHas(m, k) == k \in MapKeys(m)
MapGet(m, k) == m[CHOOSE i \in 1..Len(m) : m[i].tld = k].servers
\* Map.prototype.set: an existing key keeps its place
MapSet(m, k, v) ==
    IF MapHas(m, k)
    THEN [i \in 1..Len(m) |-> IF m[i].tld = k THEN [tld |-> k, servers |-> v] ELSE m[i]]
    ELSE Append(m, [tld |-> k, servers |-> v])

criticalTlds ==
    << [tld |-> COM, servers |-> <<"https://rdap.verisign.com/com/v1/",
                                   "https://rdap.markmonitor.com/rdap/">>],
       [tld |-> NET, servers |-> <<"https://rdap.verisign.com/net/v1/">>],
       [tld |-> ORG, servers |-> <<"https://rdap.publicinterestregistry.org/rdap/">>],
       [tld |-> IO, servers |-> <<"https://rdap.nic.io/">>],
       [tld |-> APP, servers |-> <<"https://rdap.google/rdap/">>],
       [tld |-> DEV, servers |-> <<"https://rdap.google/rdap/">>],
       [tld |-> AI, servers |-> <<"https://rdap.nic.ai/">>],
       [tld |-> CO, servers |-> <<"https://rdap.nic.co/">>],
       [tld |-> ME, servers |-> <<"https://rdap.nic.me/">>],
       [tld |-> XYZ, servers |-> <<"https://rdap.nic.xyz/">>],
       [tld |-> TECH, servers |-> <<"https://rdap.nic.tech/">>],
       [tld |-> SITE, servers |-> <<"https://rdap.centralnic.com/site/">>],
       [tld |-> ONLINE, servers |-> <<"https://rdap.centralnic.com/online/">>],
       [tld |-> STORE, servers |-> <<"https://rdap.centralnic.com/store/">>],
       [tld |-> SHOP, servers |-> <<"https://rdap.centralnic.com/shop/">>] >>

whoisConfigs ==
    << [tld |-> COM, server |-> "whois.verisign-grs.com", pattern |-> "No match for"],
       [tld |-> NET, server |-> "whois.verisign-grs.com", pattern |-> "No match for"],
       [tld |-> ORG, server |-> "whois.pir.org", pattern |-> "NOT FOUND"],
       [tld |-> IO, server |-> "whois.nic.io", pattern |-> "is available for purchase"],
       [tld |-> CO, server |-> "whois.nic.co", pattern |-> "Not found"],
       [tld |-> ME, server |-> "whois.nic.me", pattern |-> "NOT FOUND"],
       [tld |-> AI, server |-> "whois.nic.ai", pattern |-> "No Object Found"],
       [tld |-> XYZ, server |-> "whois.nic.xyz", pattern |-> "DOMAIN NOT FOUND"],
       [tld |-> TECH, server |-> "whois.nic.tech", pattern |-> "DOMAIN NOT FOUND"],
       [tld |-> APP, server |-> "whois.nic.google", pattern |-> "Domain not found"],
       [tld |-> DEV, server |-> "whois.nic.google", pattern |-> "Domain not found"] >>

TldConfig(name, server, pattern) ==
    [name |-> name, server |-> server, availablePattern |-> pattern,
     enabled |-> TRUE, displayName |-> <<".">> \o name]

\* tldConfigs.find(config => config.name === tld); NoConfig for undefined
NoConfig == [name |-> <<>>, server |-> "", availablePattern |-> "",
             enabled |-> FALSE, displayName |-> <<>>]
FindConfig(configs, tld) ==
    IF \E i \in 1..Len(configs) : configs[i].name = tld
    THEN configs[CHOOSE i \in 1..Len(configs) :
                    /\ configs[i].name = tld
                    /\ \A j \in 1..(i - 1) : configs[j].name # tld]
    ELSE NoConfig

\* ensureCriticalTlds, first loop: hardcoded servers for a critical TLD that
\* has no entry or an empty list
RECURSIVE EnsureCriticalRdap(_, _)
EnsureCriticalRdap(m, n) ==
    IF n > Len(criticalTlds) THEN m
    ELSE LET c == criticalTlds[n]
         IN  IF ~MapHas(m, c.tld) \/ Len(MapGet(m, c.tld)) = 0
             THEN EnsureCriticalRdap(MapSet(m, c.tld, c.servers), n + 1)
             ELSE EnsureCriticalRdap(m, n + 1)

\* ensureCriticalTlds, second loop: a WHOIS config for a TLD without config
RECURSIVE EnsureCriticalWhois(_, _)
EnsureCriticalWhois(configs, n) ==
    IF n > Len(whoisConfigs) THEN configs
    ELSE LET w == whoisConfigs[n]
         IN  IF FindConfig(configs, w.tld) = NoConfig
             THEN EnsureCriticalWhois(
                      Append(configs, TldConfig(w.tld, w.server, w.pattern)), n + 1)
             ELSE EnsureCriticalWhois(configs, n + 1)

\* the variant that adds the WHOIS configs and leaves the server map alone
ensureCriticalTldsWhoisOnly(m, configs) ==
    [map |-> m, configs |-> EnsureCriticalWhois(configs, 1)]

ensureCriticalTlds(m, configs) ==
    [map |-> EnsureCriticalRdap(m, 1), configs |-> EnsureCriticalWhois(configs, 1)]

\* the variant that lists the TLDs of the hardcoded WHOIS table
generateTldConfigsFromWhois(m) == EnsureCriticalWhois(<<>>, 1)

\* generateTldConfigsFromRdap: the config list is rebuilt from the server map
generateTldConfigsFromRdap(m) ==
    LET withServers == SelectSeq(m, LAMBDA e : Len(e.servers) > 0)
    IN  [i \in 1..Len(withServers) |->
            TldConfig(withServers[i].tld, withServers[i].servers[1], "404 Not Found")]

\* getEnabledTlds
getEnabledTlds == SelectSeq(tldConfigs, LAMBDA t : t.enabled)

\* the modules of the routes /api/domain-check and /api/domains/tlds: each has
\* a variable serviceInitialized of its own and an initializeService that may
\* be at its await; runs counts the executions of initialize() they began
Routes == {"domain-check", "tlds"}

NoRoutes ==
    [serviceInitialized |-> [r \in Routes |-> FALSE],
     awaiting |-> [r \in Routes |-> FALSE],
     runs |-> 0]

\* the callers of getEnabledTlds(): how many returns so far (two or more count as
\* two), the last return and the one before, each with the config list as it
\* was when the call was made
NoTldList == [count |-> 0, last |-> <<>>, lastConfigs |-> <<>>,
              previous |-> <<>>, previousConfigs |-> <<>>]

\* the variant that hands the list out and leaves none behind
GetEnabledTldsConsuming ==
    /\ tldReturns' = [count |-> IF tldReturns.count = 0 THEN 1 ELSE 2,
                   last |-> getEnabledTlds, lastConfigs |-> tldConfigs,
                   previous |-> tldReturns.last, previousConfigs |-> tldReturns.lastConfigs]
    /\ tldConfigs' = <<>>
    /\ UNCHANGED <<rdapServerMap, lastUpdateTime, updateInProgress, rdapErrorCount,
                   rdapTotalCount, initPc, update, cacheFile, now, calls,
                   kwInput, kwOutput, routes>>

\* a route calls getEnabledTlds(), lines 369-371
GetEnabledTlds ==
    /\ tldReturns' = [count |-> IF tldReturns.count = 0 THEN 1 ELSE 2,
                   last |-> getEnabledTlds, lastConfigs |-> tldConfigs,
                   previous |-> tldReturns.last, previousConfigs |-> tldReturns.lastConfigs]
    /\ UNCHANGED <<rdapServerMap, tldConfigs, lastUpdateTime, updateInProgress,
                   rdapErrorCount, rdapTotalCount, initPc, update, cacheFile, now,
                   calls, kwInput, kwOutput, routes>>

(***************************************************************************)
(* Cache file, bootstrap source and refresh.  Times are in days.           *)
(***************************************************************************)
THIRTY_DAYS == 30
ONE_DAY == 1

\* the refresh: where updateRdapData stands, its argument, whether its timeout
\* has fired, how many executions are between line 150 and the finally of
\* line 204, and whether a request was turned away at line 145 meanwhile
NoUpdate == [pc |-> "idle", isStartup |-> FALSE, aborted |-> FALSE, bodies |-> 0,
             refused |-> FALSE]

\* the variant that turns no request away
UpdateSkippedNever(inProgress) == FALSE

\* updateRdapData, lines 145-148: a request is turned away while the flag is set
UpdateSkipped(inProgress) == inProgress

\* updateRdapData, lines 150-160: the flag is set, the timeout armed on a fresh
\* controller, and fetchTlds() called and awaited
StartedUpdate(isStartup) ==
    [pc |-> "fetching", isStartup |-> isStartup, aborted |-> FALSE,
     bodies |-> update.bodies + 1, refused |-> FALSE]

\* lines 145-148: the request returns false; nothing of the service changes
RefusedUpdate == [update EXCEPT !.refused = TRUE]

\* lines 200-206: the execution leaves through the finally
EndedUpdate == [NoUpdate EXCEPT !.bodies = update.bodies - 1]

\* contents of the cache file: absent, not JSON, or a parsed RdapCache
CacheAbsent == [kind |-> "absent"]
CacheMalformed == [kind |-> "malformed"]
CacheOf(timestamp, serverMap) ==
    [kind |-> "json", timestamp |-> timestamp, serverMap |-> serverMap]

CachedServerMap ==
    << [tld |-> COM, servers |-> <<"https://rdap.cached.example/com/">>],
       [tld |-> ZZ, servers |-> <<"https://rdap.nic.zz/">>],
       [tld |-> SHOP, servers |-> <<>>] >>

InitialCacheFiles ==
    { CacheAbsent, CacheMalformed,
      CacheOf(StartDay - 1, CachedServerMap),
      CacheOf(StartDay - THIRTY_DAYS, CachedServerMap),
      CacheOf(StartDay - THIRTY_DAYS - 1, CachedServerMap) }

\* what fetchTlds() resolves to: it never rejects
FetchFailed == [success |-> FALSE, data |-> <<>>]
FetchTldsResponses ==
    { FetchFailed,
      [success |-> TRUE, data |-> <<>>],
      [success |-> TRUE,
       data |-> << [name |-> COM, rdapServers |-> <<"https://rdap.verisign.com/com/v1/">>],
                   [name |-> NET, rdapServers |-> <<>>],
                   [name |-> ZZ, rdapServers |-> <<"https://rdap.nic.zz/">>] >>] }

\* loadCachedRdapData: the entries of the file with a non-empty server list
RECURSIVE LoadServerMap(_, _)
LoadServerMap(m, entries) ==
    IF entries = <<>> THEN m
    ELSE LET e == Head(entries)
         IN  LoadServerMap(IF Len(e.servers) > 0 THEN MapSet(m, e.tld, e.servers) ELSE m,
                           Tail(entries))

\* the variant that clears the map and the timestamp before it looks at the file
loadCachedRdapDataClearing(file, map, last) ==
    IF file.kind = "json" /\ file.timestamp # 0
    THEN [loaded |-> TRUE, lastUpdateTime |-> file.timestamp,
          map |-> LoadServerMap(<<>>, file.serverMap)]
    ELSE [loaded |-> FALSE, lastUpdateTime |-> 0, map |-> <<>>]

\* lines 239-272: a file that cannot be read or parsed, or whose timestamp or
\* serverMap is missing, throws before anything is assigned
loadCachedRdapData(file, map, last) ==
    IF file.kind = "json" /\ file.timestamp # 0
    THEN [loaded |-> TRUE, lastUpdateTime |-> file.timestamp,
          map |-> LoadServerMap(<<>>, file.serverMap)]
    ELSE [loaded |-> FALSE, lastUpdateTime |-> last, map |-> map]

\* the variant for which an age of exactly thirty days is stale already
isCacheStaleFromThirtyDays(last, today) ==
    IF last = 0 THEN TRUE ELSE today - last >= THIRTY_DAYS

isCacheStale(last, today) ==
    IF last = 0 THEN TRUE ELSE today - last > THIRTY_DAYS

\* updateRdapData, lines 168-173: the bootstrap TLDs that carry servers
\* the variant that puts the bootstrap TLDs in the place of the map
ReplaceByBootstrap(m, data) ==
    LET withServers == SelectSeq(data, LAMBDA t : Len(t.rdapServers) > 0)
    IN  [i \in 1..Len(withServers) |->
            [tld |-> withServers[i].name, servers |-> withServers[i].rdapServers]]

RECURSIVE MergeBootstrap(_, _)
MergeBootstrap(m, data) ==
    IF data = <<>> THEN m
    ELSE LET t == Head(data)
         IN  MergeBootstrap(IF Len(t.rdapServers) > 0
                            THEN MapSet(m, t.name, t.rdapServers) ELSE m,
                            Tail(data))

\* initialize(), from its call to the first await
InitializeCall ==
    /\ initPc = "new"
    /\ initPc' = "loading"
    /\ UNCHANGED <<rdapServerMap, tldConfigs, lastUpdateTime, updateInProgress,
                   rdapErrorCount, rdapTotalCount, update, cacheFile, now,
                   calls, normVars>>

\* initialize(), lines 46-68: the cache is read, the critical TLDs ensured, the
\* timer scheduled, and either the startup refresh begun or the configs derived
InitializeLoaded ==
    /\ initPc = "loading"
    /\ LET c == loadCachedRdapData(cacheFile, rdapServerMap, lastUpdateTime)
           e == ensureCriticalTlds(c.map, tldConfigs)
           refresh == ~c.loaded \/ isCacheStale(c.lastUpdateTime, now)
           starts == refresh /\ ~UpdateSkipped(updateInProgress)
       IN  /\ lastUpdateTime' = c.lastUpdateTime
           /\ rdapServerMap' = e.map
           /\ tldConfigs' = IF starts THEN e.configs
                            ELSE generateTldConfigsFromRdap(e.map)
           /\ updateInProgress' = (updateInProgress \/ starts)
           /\ update' = IF starts THEN StartedUpdate(TRUE)
                        ELSE IF refresh THEN RefusedUpdate
                        ELSE update
           /\ initPc' = IF starts THEN "updating" ELSE "done"
    /\ UNCHANGED <<rdapErrorCount, rdapTotalCount, cacheFile, now, calls,
                   normVars>>

\* initializeService of a route, from the test of its flag to its await: the
\* flag is still false, so initialize() is called, on the new service or on the
\* one that another route has initialized already (executions of initialize()
\* that overlap are left out: one body at a time is followed)
RouteInitializes(r) ==
    /\ ~routes.serviceInitialized[r]
    /\ ~routes.awaiting[r]
    /\ initPc \in {"new", "done"}
    /\ initPc' = "loading"
    /\ routes' = [routes EXCEPT !.awaiting[r] = TRUE, !.runs = @ + 1]
    /\ UNCHANGED <<rdapServerMap, tldConfigs, lastUpdateTime, updateInProgress,
                   rdapErrorCount, rdapTotalCount, update, cacheFile, now,
                   calls, kwInput, kwOutput, tldReturns>>

\* initializeService behind its await: initialize() has returned and the
\* route sets its flag
RouteInitialized(r) ==
    /\ routes.awaiting[r]
    /\ initPc = "done"
    /\ routes' = [routes EXCEPT !.awaiting[r] = FALSE,
                                !.serviceInitialized[r] = TRUE]
    /\ UNCHANGED <<registryVars, calls, kwInput, kwOutput, tldReturns>>

\* the setInterval callback of schedulePeriodicUpdate: updateRdapData(false)
TimerRefresh ==
    /\ initPc \in {"updating", "done"}
    /\ updateInProgress' = TRUE
    /\ update' = IF UpdateSkipped(updateInProgress) THEN RefusedUpdate
                 ELSE StartedUpdate(FALSE)
    /\ UNCHANGED <<rdapServerMap, tldConfigs, lastUpdateTime, rdapErrorCount,
                   rdapTotalCount, initPc, cacheFile, now, calls, normVars>>

\* updateRdapData, lines 156-157: the timeout fires and aborts the controller;
\* the controller's signal was handed to nothing, and fetchTlds() (line 160,
\* TldModel.ts line 47) goes on waiting for the bootstrap source
AbortTimer ==
    /\ update.pc = "fetching"
    /\ ~update.aborted
    /\ update' = [update EXCEPT !.aborted = TRUE]
    /\ UNCHANGED <<rdapServerMap, tldConfigs, lastUpdateTime, updateInProgress,
                   rdapErrorCount, rdapTotalCount, initPc, cacheFile, now, calls,
                   normVars>>

\* the variant that stamps the time of the refresh before it looks at the
\* response, and keeps the stamp when the response is a failure
UpdateFetchedStamping(resp) ==
    /\ update.pc = "fetching"
    /\ LET ok == resp.success /\ Len(resp.data) > 0
           e == ensureCriticalTlds(MergeBootstrap(rdapServerMap, resp.data), tldConfigs)
           ends == ~ok /\ update.isStartup /\ initPc = "updating"
       IN  /\ rdapServerMap' = IF ok THEN e.map ELSE rdapServerMap
           /\ lastUpdateTime' = now
           /\ tldConfigs' = IF ok THEN generateTldConfigsFromRdap(e.map)
                            ELSE IF ends THEN generateTldConfigsFromRdap(rdapServerMap)
                            ELSE tldConfigs
           /\ update' = IF ok THEN [update EXCEPT !.pc = "saving", !.aborted = FALSE]
                        ELSE EndedUpdate
           /\ updateInProgress' = ok
           /\ initPc' = IF ends THEN "done" ELSE initPc
    /\ UNCHANGED <<rdapErrorCount, rdapTotalCount, cacheFile, now, calls,
                   normVars>>

\* updateRdapData, lines 160-203: fetchTlds() has resolved
UpdateFetched(resp) ==
    /\ update.pc = "fetching"
    /\ LET ok == resp.success /\ Len(resp.data) > 0
           e == ensureCriticalTlds(MergeBootstrap(rdapServerMap, resp.data), tldConfigs)
           ends == ~ok /\ update.isStartup /\ initPc = "updating"
       IN  /\ rdapServerMap' = IF ok THEN e.map ELSE rdapServerMap
           /\ lastUpdateTime' = IF ok THEN now ELSE lastUpdateTime
           /\ tldConfigs' = IF ok THEN generateTldConfigsFromRdap(e.map)
                            ELSE IF ends THEN generateTldConfigsFromRdap(rdapServerMap)
                            ELSE tldConfigs
           /\ update' = IF ok THEN [update EXCEPT !.pc = "saving", !.aborted = FALSE]
                        ELSE EndedUpdate
           /\ updateInProgress' = ok
           /\ initPc' = IF ends THEN "done" ELSE initPc
    /\ UNCHANGED <<rdapErrorCount, rdapTotalCount, cacheFile, now, calls,
                   normVars>>

\* updateRdapData, lines 183-206, with saveCachedRdapData: the snapshot is
\* written (or the write fails, which is only logged) and the flag released
UpdateSaved(written) ==
    /\ update.pc = "saving"
    /\ cacheFile' = IF written THEN CacheOf(lastUpdateTime, rdapServerMap)
                    ELSE cacheFile
    /\ updateInProgress' = FALSE
    /\ update' = EndedUpdate
    /\ LET ends == update.isStartup /\ initPc = "updating"
       IN  /\ initPc' = IF ends THEN "done" ELSE initPc
           /\ tldConfigs' = IF ends THEN generateTldConfigsFromRdap(rdapServerMap)
                            ELSE tldConfigs
    /\ UNCHANGED <<rdapServerMap, lastUpdateTime, rdapErrorCount, rdapTotalCount,
                   now, calls, normVars>>

(***************************************************************************)
(* Results.  An error text is a sequence of its parts, <<>> when unset; the *)
(* registration-lifecycle fields of a result are a function from the names  *)
(* of the fields that are set.                                              *)
(***************************************************************************)
batchSize == 5

NoError == <<>>
NoFields == <<>>
NoRdapData == [kind |-> "absent"]
NullRdapData == [kind |-> "null"]
JsonRdapData(events) == [kind |-> "json", events |-> events]

LifecycleFields == {"registrationDate", "expirationDate", "lastChangedDate", "domainAge"}

Result(domain, tld, available, method, error, rdapData, fields) ==
    [domain |-> domain, tld |-> tld, available |-> available, method |-> method,
     error |-> error, rdapData |-> rdapData, fields |-> fields]

NoResult == Result(<<>>, <<>>, FALSE, "none", NoError, NoRdapData, NoFields)

\* parseRdapTimeData, lines 529-544: a later event of a kind overrides an earlier
RECURSIVE ParseEvents(_, _)
ParseEvents(fields, events) ==
    IF events = <<>> THEN fields
    ELSE LET ev == Head(events)
             name == CASE ev.eventAction = "registration" -> "registrationDate"
                       [] ev.eventAction = "expiration" -> "expirationDate"
                       [] ev.eventAction \in {"last changed", "last update"}
                              -> "lastChangedDate"
                       [] OTHER -> "ignored"
             rest == [f \in DOMAIN fields \ {name} |-> fields[f]]
         IN  ParseEvents(IF name = "ignored" THEN fields
                         ELSE (name :> ev.eventDate) @@ rest,
                         Tail(events))

\* parseRdapTimeData: the dates of the events, and the age in whole days
parseRdapTimeData(rdapData, today) ==
    IF rdapData.kind # "json" THEN NoFields
    ELSE LET dates == ParseEvents(NoFields, rdapData.events)
         IN  IF "registrationDate" \in DOMAIN dates
             THEN ("domainAge" :> (today - dates["registrationDate"])) @@ dates
             ELSE dates

\* errors.join('; ')
RECURSIVE JoinErrors(_)
JoinErrors(errors) ==
    IF errors = <<>> THEN <<>>
    ELSE IF Len(errors) = 1 THEN errors[1]
    ELSE errors[1] \o <<";">> \o JoinErrors(Tail(errors))

\* what one RDAP server can do with a request
RdapOutcomes ==
    { [kind |-> "404"],
      [kind |-> "200", body |-> NullRdapData],
      [kind |-> "200", body |-> JsonRdapData(<<>>)],
      [kind |-> "200",
       body |-> JsonRdapData(<< [eventAction |-> "registration",
                                 eventDate |-> StartDay - 10] >>)],
      [kind |-> "200",
       body |-> JsonRdapData(<< [eventAction |-> "registration",
                                 eventDate |-> StartDay + 1] >>)],
      [kind |-> "status"],
      [kind |-> "timeout"],
      [kind |-> "fetch"] }

\* the entry pushed on errors for a server that decided nothing
ServerError(outcome, baseUrl) ==
    CASE outcome.kind = "status" -> <<"RDAP server responded with status", "500">>
      [] outcome.kind = "timeout" -> <<"RDAP request timed out for", baseUrl>>
      [] OTHER -> <<"RDAP fetch error for", baseUrl>>

\* how a WHOIS query ends: the text received, as the set of phrases in it, or
\* the message of the error whoisQuery rejects with
WhoisOutcomes ==
    { [ok |-> TRUE, response |-> {"No match for"}],
      [ok |-> TRUE, response |-> {"404 Not Found"}],
      [ok |-> TRUE, response |-> {"Domain Name:", "Registrar:"}],
      [ok |-> FALSE, message |-> "Failed to resolve hostname"],
      [ok |-> FALSE, message |-> "Connection timeout after 5s"] }

\* response.includes(availablePattern)
Includes(response, pattern) == pattern \in response

\* the variant that lets the failure of whoisQuery escape to the caller
checkSingleDomainWhoisRethrowing(domain, whoisServer, availablePattern, tld, outcome) ==
    IF outcome.ok
    THEN [threw |-> FALSE, message |-> "",
          result |-> Result(domain, tld, Includes(outcome.response, availablePattern),
                            "WHOIS", NoError, NoRdapData, NoFields)]
    ELSE [threw |-> TRUE, message |-> outcome.message, result |-> NoResult]

\* the variant whose result starts out as available and gets the error on top
checkSingleDomainWhoisOptimistic(domain, whoisServer, availablePattern, tld, outcome) ==
    IF outcome.ok
    THEN [threw |-> FALSE, message |-> "",
          result |-> Result(domain, tld, Includes(outcome.response, availablePattern),
                            "WHOIS", NoError, NoRdapData, NoFields)]
    ELSE [threw |-> FALSE, message |-> "",
          result |-> Result(domain, tld, TRUE, "WHOIS",
                            <<"WHOIS error:", outcome.message>>, NoRdapData, NoFields)]

\* checkSingleDomainWhois: a failed query is caught and becomes the error of
\* the result; nothing is thrown
checkSingleDomainWhois(domain, whoisServer, availablePattern, tld, outcome) ==
    IF outcome.ok
    THEN [threw |-> FALSE, message |-> "",
          result |-> Result(domain, tld, Includes(outcome.response, availablePattern),
                            "WHOIS", NoError, NoRdapData, NoFields)]
    ELSE [threw |-> FALSE, message |-> "",
          result |-> Result(domain, tld, FALSE, "WHOIS",
                            <<"WHOIS error:", outcome.message>>, NoRdapData, NoFields)]

(***************************************************************************)
(* A candidate of the running batch.                                       *)
(***************************************************************************)
\* whoisQuery, lines 762-847: where the query stands, the timer that is armed,
\* whether end() was called on the socket, and the response received so far
NoQuery == [pc |-> "none", timer |-> "none", ended |-> FALSE, response |-> {}]

\* lines 773 and 741-743: the query begins with the lookup of the host, under
\* the lookup's timer
StartedQuery == [pc |-> "resolving", timer |-> "dns", ended |-> FALSE, response |-> {}]

Candidate(pc, domain, tld, servers, k, errors, result, whoisServer, whoisPattern) ==
    [pc |-> pc, domain |-> domain, tld |-> tld, servers |-> servers, k |-> k,
     errors |-> errors, result |-> result,
     whoisServer |-> whoisServer, whoisPattern |-> whoisPattern,
     query |-> NoQuery]

\* a finished candidate; the errors of an RDAP check that exhausted its servers
\* stay on record until the batch is resolved, those of a check that ended
\* otherwise go with it
Done(cand, result) ==
    [cand EXCEPT !.pc = "done", !.k = 0, !.result = result,
                 !.errors = IF Len(@) = Len(cand.servers) THEN @ ELSE <<>>,
                 !.whoisServer = "", !.whoisPattern = "", !.query = NoQuery]

\* the variant that asks the WHOIS server whatever the RDAP result was
AfterRdapAlwaysWhois(cand, result, configs) ==
    LET tldConfig == FindConfig(configs, cand.tld)
    IN  IF tldConfig.server # "" /\ tldConfig.availablePattern # ""
        THEN [cand EXCEPT !.pc = "whois", !.k = 0, !.result = result,
                          !.whoisServer = tldConfig.server,
                          !.whoisPattern = tldConfig.availablePattern,
                          !.query = StartedQuery]
        ELSE Done(cand, result)

\* checkDomains, lines 436-466: an RDAP result without error is the result; with
\* an error, the WHOIS query is issued if the TLD has a config with server and
\* pattern
AfterRdap(cand, result, configs) ==
    LET tldConfig == FindConfig(configs, cand.tld)
    IN  IF result.error # NoError /\ tldConfig.server # "" /\ tldConfig.availablePattern # ""
        THEN [cand EXCEPT !.pc = "whois", !.k = 0, !.result = result,
                          !.whoisServer = tldConfig.server,
                          !.whoisPattern = tldConfig.availablePattern,
                          !.query = StartedQuery]
        ELSE Done(cand, result)

\* checkSingleDomainRdap, lines 568-596: no servers is an error result at once,
\* else the first server is asked
StartCandidate(combo, map, configs) ==
    LET domain == domainName(combo.keyword, combo.tld)
        servers == IF MapHas(map, combo.tld) THEN MapGet(map, combo.tld) ELSE <<>>
        cand == Candidate("fetch", domain, combo.tld, servers, 1, <<>>, NoResult, "", "")
    IN  IF servers = <<>>
        THEN AfterRdap(cand,
                       Result(domain, combo.tld, FALSE, "RDAP",
                              <<"No RDAP servers available for TLD">>,
                              NoRdapData, NoFields),
                       configs)
        ELSE cand

InFlightPcs == {"fetch", "whois"}

(***************************************************************************)
(* checkDomains.                                                           *)
(***************************************************************************)
RECURSIVE Dedupe(_, _)
\* [...new Set(list)]: the first occurrence of each string, in order
Dedupe(seen, list) ==
    IF list = <<>> THEN seen
    ELSE IF \E i \in 1..Len(seen) : seen[i] = Head(list)
         THEN Dedupe(seen, Tail(list))
         ELSE Dedupe(Append(seen, Head(list)), Tail(list))

\* lines 389-390: the non-blank strings, without repetitions
ValidStrings(list) == Dedupe(<<>>, SelectSeq(list, LAMBDA x : Len(trim(x)) > 0))

\* the variant that only looks at the lengths of the lists
ValidateLengthOnly(keywords, tlds) ==
    IF keywords = <<>> THEN "No keywords provided"
    ELSE IF tlds = <<>> THEN "No TLDs provided"
    ELSE ""

\* lines 380-398: the message of the validation error, "" when the input passes
Validate(keywords, tlds) ==
    IF keywords = <<>> THEN "No keywords provided"
    ELSE IF tlds = <<>> THEN "No TLDs provided"
    ELSE IF ValidStrings(keywords) = <<>> THEN "No valid keywords after filtering"
    ELSE IF ValidStrings(tlds) = <<>> THEN "No valid TLDs after filtering"
    ELSE ""

ValidationErrors ==
    {"No keywords provided", "No TLDs provided",
     "No valid keywords after filtering", "No valid TLDs after filtering"}

\* lines 401-415: keyword-major cross product; a keyword that normalizes to the
\* empty string contributes nothing
RECURSIVE CombosOfKeyword(_, _)
CombosOfKeyword(keyword, tldList) ==
    IF tldList = <<>> THEN <<>>
    ELSE (IF normalizeKeyword(keyword) # <<>>
          THEN << [keyword |-> normalizeKeyword(keyword), tld |-> Head(tldList)] >>
          ELSE <<>>)
         \o CombosOfKeyword(keyword, Tail(tldList))

RECURSIVE domainCombinations(_, _)
domainCombinations(validKeywords, validTlds) ==
    IF validKeywords = <<>> THEN <<>>
    ELSE CombosOfKeyword(Head(validKeywords), validTlds)
         \o domainCombinations(Tail(validKeywords), validTlds)

Min(a, b) == IF a < b THEN a ELSE b

\* the variant that takes every remaining candidate into one batch
BatchOfRest(combos, i) == SubSeq(combos, i + 1, Len(combos))

\* line 425: domainCombinations.slice(i, i + batchSize)
BatchOf(combos, i) == SubSeq(combos, i + 1, Min(i + batchSize, Len(combos)))

\* line 428: batch.map(async ...): every candidate of the batch is started
LaunchBatch(combos, i, map, configs) ==
    LET b == BatchOf(combos, i)
    IN  [j \in 1..Len(b) |-> StartCandidate(b[j], map, configs)]

InFlight(call) ==
    Cardinality({j \in 1..Len(call.batch) : call.batch[j].pc \in InFlightPcs})

IdleCall ==
    [status |-> "idle", keywords |-> <<>>, tlds |-> <<>>, combos |-> <<>>, i |-> 0,
     batch |-> <<>>, results |-> <<>>, error |-> "", requests |-> 0, threw |-> {},
     served |-> 0]

RunningCalls == {c \in DOMAIN calls : calls[c].status \in {"running", "delay"}}

RECURSIVE SumCandidates(_)
SumCandidates(cs) ==
    IF cs = {} THEN 0
    ELSE LET c == CHOOSE x \in cs : TRUE
         IN  Len(calls[c].combos) + SumCandidates(cs \ {c})

\* checkDomains, from the call to its first await (or to its throw or return)
checkDomains(c, keywords, tlds, maxCandidates) ==
    /\ initPc = "done"
    /\ calls[c].status = "idle"
    /\ \A d \in DOMAIN calls : d < c => calls[d].status # "idle"
    /\ LET message == Validate(keywords, tlds)
           combos == IF message = "" 
                     THEN domainCombinations(ValidStrings(keywords), ValidStrings(tlds))
                     ELSE <<>>
           batch == LaunchBatch(combos, 0, rdapServerMap, tldConfigs)
           started == [calls[c] EXCEPT !.keywords = keywords, !.tlds = tlds]
       IN  /\ SumCandidates(DOMAIN calls) + Len(combos) <= maxCandidates
           /\ calls' = [calls EXCEPT ![c] =
                  IF message # ""
                  THEN [started EXCEPT !.status = "rejected", !.error = message]
                  ELSE IF combos = <<>>
                  THEN [started EXCEPT !.status = "returned"]
                  ELSE [started EXCEPT !.status = "running", !.combos = combos,
                                       !.batch = batch,
                                       !.requests = Cardinality(
                                           {j \in 1..Len(batch) :
                                               batch[j].pc \in InFlightPcs})]]
    /\ UNCHANGED <<registryVars, normVars>>

\* what the exception of line 467 carries
ExceptionMessage == "unexpected failure"

\* the variant without the per-candidate catch: Promise.all rejects
OnCandidateErrorUncaught(call, j, message) ==
    [call EXCEPT !.status = "rejected", !.error = message,
                 !.batch[j] = [call.batch[j] EXCEPT !.pc = "failed"]]

\* lines 467-483: the exception becomes the candidate's result
OnCandidateError(call, j, message) ==
    [call EXCEPT !.batch[j] =
        Done(call.batch[j],
             Result(call.batch[j].domain, call.batch[j].tld, FALSE, "Unknown",
                    <<message>>, NoRdapData, NoFields))]

\* an unexpected exception escapes checkSingleDomainRdap while it is under way
CandidateThrows(c, j) ==
    /\ j \in 1..Len(calls[c].batch)
    /\ calls[c].batch[j].pc = "fetch"
    /\ calls' = [calls EXCEPT ![c] =
           [OnCandidateError(calls[c], j, ExceptionMessage)
               EXCEPT !.threw = @ \cup {calls[c].i + j}]]
    /\ UNCHANGED <<registryVars, normVars>>

\* checkSingleDomainRdap, lines 605-691, for the answer of server k, followed by
\* lines 436-466 of checkDomains when the answer ends the RDAP check
\* the variant that begins again at the first server when the last has failed
RdapStepRestarting(cand, outcome, configs, today) ==
    LET baseUrl == cand.servers[cand.k]
        errors == Append(cand.errors, ServerError(outcome, baseUrl))
    IN  CASE outcome.kind = "404" ->
               AfterRdap(cand,
                         Result(cand.domain, cand.tld, TRUE, "RDAP", NoError,
                                NoRdapData, NoFields),
                         configs)
          [] outcome.kind = "200" ->
               AfterRdap(cand,
                         Result(cand.domain, cand.tld, FALSE, "RDAP", NoError,
                                outcome.body, parseRdapTimeData(outcome.body, today)),
                         configs)
          [] OTHER ->
               IF cand.k < Len(cand.servers)
               THEN [cand EXCEPT !.k = cand.k + 1, !.errors = errors]
               ELSE [cand EXCEPT !.k = 1, !.errors = <<>>]

RdapStep(cand, outcome, configs, today) ==
    LET baseUrl == cand.servers[cand.k]
        errors == Append(cand.errors, ServerError(outcome, baseUrl))
    IN  CASE outcome.kind = "404" ->
               AfterRdap(cand,
                         Result(cand.domain, cand.tld, TRUE, "RDAP", NoError,
                                NoRdapData, NoFields),
                         configs)
          [] outcome.kind = "200" ->
               AfterRdap(cand,
                         Result(cand.domain, cand.tld, FALSE, "RDAP", NoError,
                                outcome.body, parseRdapTimeData(outcome.body, today)),
                         configs)
          [] OTHER ->
               IF cand.k < Len(cand.servers)
               THEN [cand EXCEPT !.k = cand.k + 1, !.errors = errors]
               ELSE AfterRdap([cand EXCEPT !.errors = errors],
                              Result(cand.domain, cand.tld, FALSE, "RDAP",
                                     <<"All RDAP servers failed:">> \o JoinErrors(errors),
                                     NoRdapData, NoFields),
                              configs)

\* the variant that counts every server that decided nothing
ExhaustsAtAnyServer(cand, outcome) == outcome.kind \notin {"404", "200"}

\* the answer exhausts the servers of the candidate
Exhausts(cand, outcome) ==
    outcome.kind \notin {"404", "200"} /\ cand.k = Len(cand.servers)

\* maybeUpdateBasedOnErrors, with the guard of line 680
MinTotalForUpdate == 10

TriggersUpdate(errors, total, last, today) ==
    /\ errors > 0 /\ total > MinTotalForUpdate
    /\ 10 * errors > 3 * total
    /\ today - last > ONE_DAY

RdapResponds(c, j, outcome) ==
    /\ j \in 1..Len(calls[c].batch)
    /\ calls[c].batch[j].pc = "fetch"
    /\ LET cand == calls[c].batch[j]
           next == RdapStep(cand, outcome, tldConfigs, now)
           exhausted == Exhausts(cand, outcome)
           requested == /\ exhausted
                        /\ TriggersUpdate(rdapErrorCount + 1, rdapTotalCount + 1,
                                          lastUpdateTime, now)
           triggers == requested /\ ~UpdateSkipped(updateInProgress)
       IN  /\ calls' = [calls EXCEPT ![c].batch[j] = next,
                                     ![c].requests =
                                         IF next.pc \in InFlightPcs THEN @ + 1 ELSE @]
           /\ rdapErrorCount' = IF exhausted THEN rdapErrorCount + 1 ELSE rdapErrorCount
           /\ rdapTotalCount' = IF exhausted THEN rdapTotalCount + 1 ELSE rdapTotalCount
           /\ updateInProgress' = (updateInProgress \/ triggers)
           /\ update' = IF triggers THEN StartedUpdate(FALSE)
                        ELSE IF requested THEN RefusedUpdate
                        ELSE update
    /\ UNCHANGED <<rdapServerMap, tldConfigs, lastUpdateTime, initPc, cacheFile,
                   now, normVars>>

\* lines 443-459: the WHOIS result relabelled, or, had the WHOIS check thrown,
\* the RDAP result with the WHOIS failure appended to its error
WhoisStep(cand, outcome) ==
    LET w == checkSingleDomainWhois(cand.domain, cand.whoisServer,
                                    cand.whoisPattern, cand.tld, outcome)
    IN  IF w.threw
        THEN Done(cand,
                  [cand.result EXCEPT !.error =
                      @ \o <<". WHOIS fallback also failed:", w.message>>])
        ELSE Done(cand, [w.result EXCEPT !.method = "WHOIS (RDAP fallback)"])

WhoisResponds(c, j, outcome) ==
    /\ j \in 1..Len(calls[c].batch)
    /\ calls[c].batch[j].pc = "whois"
    /\ calls' = [calls EXCEPT ![c].batch[j] = WhoisStep(calls[c].batch[j], outcome)]
    /\ UNCHANGED <<registryVars, normVars>>

\* lines 486-505: Promise.all has resolved; the results are appended in batch
\* order, and the call sleeps before the next batch or returns
\* the variant that resolves with the first candidate that is done
PromiseAnyResolved(batch) == \E j \in 1..Len(batch) : batch[j].pc = "done"

\* line 428: Promise.all resolves when every callback of the batch has returned
PromiseAllResolved(batch) == \A j \in 1..Len(batch) : batch[j].pc = "done"

\* the variant that hands the values over last callback first
PromiseAllValuesReversed(batch) ==
    [j \in 1..Len(batch) |-> batch[Len(batch) + 1 - j].result]

\* line 428: the value of Promise.all, the callbacks' values in the order of
\* the batch
PromiseAllValues(batch) == [j \in 1..Len(batch) |-> batch[j].result]

BatchResolved(c) ==
    /\ calls[c].status = "running"
    /\ PromiseAllResolved(calls[c].batch)
    /\ LET call == calls[c]
           batchResults == PromiseAllValues(call.batch)
       IN  calls' = [calls EXCEPT ![c] =
               [call EXCEPT !.results = @ \o batchResults,
                            !.batch = <<>>,
                            !.status = IF call.i + batchSize < Len(call.combos)
                                       THEN "delay" ELSE "returned"]]
    /\ UNCHANGED <<registryVars, normVars>>

\* lines 424-428: the 500 ms are over; the next batch is started
DelayElapsed(c) ==
    /\ calls[c].status = "delay"
    /\ LET call == calls[c]
           batch == LaunchBatch(call.combos, call.i + batchSize, rdapServerMap, tldConfigs)
       IN  calls' = [calls EXCEPT ![c] =
               [call EXCEPT !.status = "running", !.i = @ + batchSize,
                            !.batch = batch,
                            !.requests = @ + Cardinality(
                                {j \in 1..Len(batch) : batch[j].pc \in InFlightPcs})]]
    /\ UNCHANGED <<registryVars, normVars>>

\* the route handler, lines 120-162 of its POST: the call has settled and the
\* response is sent; the client may send its next request
RouteResponds(c, maxCalls) ==
    /\ calls[c].status \in {"returned", "rejected"}
    /\ calls[c].served + 1 < maxCalls
    /\ calls' = [calls EXCEPT ![c] = [IdleCall EXCEPT !.served = calls[c].served + 1]]
    /\ UNCHANGED <<registryVars, normVars>>

(***************************************************************************)
(* Inputs.                                                                 *)
(***************************************************************************)
KwA == <<"a">>
KwUpperA == <<"A">>
KwC == <<"c">>
KwM == <<"m">>
KwBlank == <<" ">>
KwBang == <<"!">>
KwMyShop == <<"M", "y", " ", "S", "h", "o", "p", "!", "!">>
TldUpperCom == <<"C", "O", "M">>
TldPaddedCom == <<"c", "o", "m", " ">>
TldBlank == <<" ">>

\* requests of the detailed flow
FlowRequests ==
    { [keywords |-> <<>>, tlds |-> <<COM>>],
      [keywords |-> <<KwA>>, tlds |-> <<>>],
      [keywords |-> <<KwBlank>>, tlds |-> <<COM>>],
      [keywords |-> <<KwA>>, tlds |-> <<TldBlank, TldBlank>>],
      [keywords |-> <<KwBang>>, tlds |-> <<COM>>],
      [keywords |-> <<KwA>>, tlds |-> <<COM>>],
      [keywords |-> <<KwA, KwBlank>>, tlds |-> <<ZZ, TldBlank>>] }

\* requests of the batch scenario
BatchRequests ==
    { [keywords |-> <<KwA>>, tlds |-> <<COM>>],
      [keywords |-> <<KwA>>, tlds |-> <<COM, TldUpperCom>>],
      [keywords |-> <<KwA, KwUpperA, KwC>>, tlds |-> <<COM, SHOP>>] }

BatchRdapOutcomes == { [kind |-> "404"] }

CallIds == DOMAIN calls

(***************************************************************************)
(* The service from construction on: initialize(), refreshes and calls of  *)
(* checkDomains with every behaviour of the RDAP and WHOIS servers.  One   *)
(* client sends its requests one after the other; invocations that overlap *)
(* are the subject of the batch scenario below.                            *)
(***************************************************************************)
InitRegistry ==
    /\ rdapServerMap = <<>>
    /\ tldConfigs = <<>>
    /\ lastUpdateTime = 0
    /\ updateInProgress = FALSE
    /\ rdapErrorCount = 0
    /\ rdapTotalCount = 0
    /\ update = NoUpdate
    /\ now = StartDay

InitNorm ==
    /\ kwInput = <<>>
    /\ kwOutput = [done |-> FALSE, keyword |-> <<>>, domain |-> <<>>]
    /\ tldReturns = NoTldList
    /\ routes = NoRoutes

Init ==
    /\ InitRegistry
    /\ initPc = "new"
    /\ cacheFile \in InitialCacheFiles
    /\ calls = << IdleCall >>
    /\ InitNorm

Next ==
    \/ InitializeCall
    \/ InitializeLoaded
    \/ TimerRefresh
    \/ AbortTimer
    \/ \E resp \in FetchTldsResponses : UpdateFetched(resp)
    \/ \E written \in BOOLEAN : UpdateSaved(written)
    \/ \E c \in CallIds, r \in FlowRequests :
           checkDomains(c, r.keywords, r.tlds, MaxCandidates)
    \/ \E c \in CallIds, j \in 1..batchSize, o \in RdapOutcomes : RdapResponds(c, j, o)
    \/ \E c \in CallIds, j \in 1..batchSize, o \in WhoisOutcomes : WhoisResponds(c, j, o)
    \/ \E c \in CallIds, j \in 1..batchSize : CandidateThrows(c, j)
    \/ \E c \in CallIds : BatchResolved(c)
    \/ \E c \in CallIds : RouteResponds(c, MaxFlowCalls)

Spec == Init /\ [][Next]_vars

\* the same service with its timers firing and its file written in the end;
\* whether and when the bootstrap source answers is up to the source
FairRefresh ==
    /\ WF_vars(AbortTimer)
    /\ WF_vars(\E written \in BOOLEAN : UpdateSaved(written))

SpecFair == Init /\ [][Next]_vars /\ FairRefresh

(***************************************************************************)
(* The batch scenario: the service as initialize() leaves it when there is *)
(* no cache file and the bootstrap source fails, and calls with more       *)
(* candidates than one batch holds.                                        *)
(***************************************************************************)
InitBatch ==
    /\ rdapServerMap = ensureCriticalTlds(<<>>, <<>>).map
    /\ tldConfigs = generateTldConfigsFromRdap(rdapServerMap)
    /\ lastUpdateTime = 0
    /\ updateInProgress = FALSE
    /\ rdapErrorCount = 0
    /\ rdapTotalCount = 0
    /\ update = NoUpdate
    /\ now = StartDay
    /\ initPc = "done"
    /\ cacheFile = CacheAbsent
    /\ calls = [c \in 1..MaxCalls |-> IdleCall]
    /\ InitNorm

NextBatch ==
    \/ \E c \in CallIds, r \in BatchRequests :
           checkDomains(c, r.keywords, r.tlds, MaxCandidates)
    \/ \E c \in CallIds, j \in 1..batchSize, o \in BatchRdapOutcomes : RdapResponds(c, j, o)
    \/ \E c \in CallIds, j \in 1..batchSize : CandidateThrows(c, j)
    \/ \E c \in CallIds : BatchResolved(c)
    \/ \E c \in CallIds : DelayElapsed(c)

SpecBatch == InitBatch /\ [][NextBatch]_vars

(***************************************************************************)
(* normalizeKeyword on every keyword of at most MaxLen characters, and on  *)
(* the keyword of the documentation.                                       *)
(***************************************************************************)
NormChars == {"a", "A", "1", " ", "-", "!"}

RECURSIVE StringsUpTo(_)
StringsUpTo(n) ==
    IF n = 0 THEN { <<>> }
    ELSE LET shorter == StringsUpTo(n - 1)
         IN  shorter \cup {Append(s, ch) : s \in shorter, ch \in NormChars}

InitNormalize ==
    /\ InitRegistry
    /\ initPc = "new"
    /\ cacheFile = CacheAbsent
    /\ calls = <<>>
    /\ kwInput \in StringsUpTo(MaxLen) \cup {KwMyShop}
    /\ kwOutput = [done |-> FALSE, keyword |-> <<>>, domain |-> <<>>]
    /\ tldReturns = NoTldList
    /\ routes = NoRoutes

\* normalizeKeyword(keyword), and the candidate domain checkDomains builds for
\* [keyword] and ["com"]
Normalize ==
    /\ ~kwOutput.done
    /\ LET combos == domainCombinations(<<kwInput>>, <<COM>>)
       IN  kwOutput' = [done |-> TRUE, keyword |-> normalizeKeyword(kwInput),
                        domain |-> IF combos = <<>> THEN <<>>
                                   ELSE domainName(combos[1].keyword, combos[1].tld)]
    /\ UNCHANGED <<registryVars, calls, kwInput, tldReturns, routes>>

NextNormalize == Normalize

SpecNormalize == InitNormalize /\ [][NextNormalize]_vars

(***************************************************************************)
(* Properties.                                                             *)
(***************************************************************************)
Range(f) == {f[i] : i \in DOMAIN f}

\* the results the calls have produced so far: those already appended to the
\* result list and those of the finished candidates of the running batch
ProducedResults(call) ==
    Range(call.results)
        \cup {call.batch[j].result : j \in {i \in 1..Len(call.batch) : call.batch[i].pc = "done"}}

AllResults == UNION {ProducedResults(calls[c]) : c \in DOMAIN calls}

ReturnedCalls == {c \in DOMAIN calls : calls[c].status = "returned"}

\* the labels the keywords of a list stand for, and the TLDs of a list up to
\* case and surrounding whitespace
NormalizedKeywords(list) == {normalizeKeyword(k) : k \in Range(list)} \ {<<>>}
NormalizedTlds(list) == {toLowerCase(trim(t)) : t \in Range(list)} \ {<<>>}

\* C1: a returned call holds exactly (distinct normalized non-empty keywords) x
\* (distinct normalized TLDs) results, and no two of them carry the same domain
C1_ResultCount ==
    \A c \in ReturnedCalls :
        /\ Len(calls[c].results) =
               Cardinality(NormalizedKeywords(calls[c].keywords))
                   * Cardinality(NormalizedTlds(calls[c].tlds))
        /\ \A i, j \in 1..Len(calls[c].results) :
               i # j => calls[c].results[i].domain # calls[c].results[j].domain

\* C2: in every result, available implies that no error and no lifecycle field
\* is set, and an error implies not available
C2_AvailableConsistent ==
    \A r \in AllResults :
        /\ r.available => (r.error = NoError /\ DOMAIN r.fields \cap LifecycleFields = {})
        /\ r.error # NoError => ~r.available

\* a call has returned a result of the WHOIS fallback that says available
C2_Witness ==
    \E c \in ReturnedCalls : \E i \in 1..Len(calls[c].results) :
        /\ calls[c].results[i].available
        /\ calls[c].results[i].method = "WHOIS (RDAP fallback)"

\* the finished candidates of the running batches
DoneCandidates ==
    UNION { {calls[c].batch[j] :
                j \in {i \in 1..Len(calls[c].batch) : calls[c].batch[i].pc = "done"}} :
            c \in DOMAIN calls }

\* the entry of a server that could not be reached, as opposed to one that
\* answered with a status
ConnectionError(e) == e[1] \in {"RDAP fetch error for", "RDAP request timed out for"}

\* every RDAP server of the candidate's TLD has been tried and has failed
RdapExhausted(cand) ==
    /\ cand.servers # <<>>
    /\ Len(cand.errors) = Len(cand.servers)

FailedByConnection(cand) ==
    /\ RdapExhausted(cand)
    /\ \A i \in 1..Len(cand.errors) : ConnectionError(cand.errors[i])

HasWhoisServer(configs, tld) ==
    /\ FindConfig(configs, tld).server # ""
    /\ FindConfig(configs, tld).availablePattern # ""

WhoisFailureMessages == {o.message : o \in {w \in WhoisOutcomes : ~w.ok}}

\* C4: when the RDAP check has ended in an error and the WHOIS fallback fails
\* too, the candidate's result is the RDAP result: method 'RDAP', not
\* available, and the RDAP error followed by the WHOIS failure as its error
C4_FallbackFailureKeepsRdap ==
    \A cand \in DoneCandidates :
        (/\ RdapExhausted(cand)
         /\ HasWhoisServer(tldConfigs, cand.tld)
         /\ cand.result.error # NoError)
            => /\ cand.result.method = "RDAP"
               /\ ~cand.result.available
               /\ \E m \in WhoisFailureMessages :
                      cand.result.error =
                          <<"All RDAP servers failed:">> \o JoinErrors(cand.errors)
                              \o <<". WHOIS fallback also failed:", m>>

\* the entry of the hardcoded WHOIS table for a TLD
HardcodedWhois(tld) ==
    whoisConfigs[CHOOSE i \in 1..Len(whoisConfigs) : whoisConfigs[i].tld = tld]

HardcodedWhoisTlds == {whoisConfigs[i].tld : i \in 1..Len(whoisConfigs)}

\* C5: once initialize() is through, a WHOIS fallback for a TLD of the
\* hardcoded WHOIS table goes to the host of that entry with its pattern
C5_FallbackUsesHardcodedWhois ==
    initPc = "done" =>
        \A c \in DOMAIN calls : \A j \in 1..Len(calls[c].batch) :
            (calls[c].batch[j].pc = "whois" /\ calls[c].batch[j].tld \in HardcodedWhoisTlds)
                => /\ calls[c].batch[j].whoisServer =
                          HardcodedWhois(calls[c].batch[j].tld).server
                   /\ calls[c].batch[j].whoisPattern =
                          HardcodedWhois(calls[c].batch[j].tld).pattern

IsAlnum(ch) == ch \in LowerChars \cup UpperChars \cup DigitChars

\* C6 as stated: 'My Shop!!' is normalized to 'my-shop' and its candidate
\* domain is 'my-shop.<tld>'
C6_MyShopHyphenated ==
    (kwOutput.done /\ kwInput = KwMyShop)
        => /\ kwOutput.keyword = <<"m", "y", "-", "s", "h", "o", "p">>
           /\ kwOutput.domain = <<"m", "y", "-", "s", "h", "o", "p", ".">> \o COM

\* C6: normalizeKeyword removes whitespace instead of turning it into a hyphen:
\* 'My Shop!!' becomes 'myshop' with the candidate domain 'myshop.<tld>'; in
\* general the letters and digits of the keyword survive in order and in lower
\* case, a hyphen stands only between two other characters and never next to
\* another hyphen, and there is none unless the keyword holds a character that
\* is neither a letter, a digit nor whitespace
C6_WhitespaceRemoved ==
    kwOutput.done =>
        LET out == kwOutput.keyword
        IN  /\ kwInput = KwMyShop
                   => /\ out = <<"m", "y", "s", "h", "o", "p">>
                      /\ kwOutput.domain = <<"m", "y", "s", "h", "o", "p", ".">> \o COM
            /\ SelectSeq(out, IsAlnum) = toLowerCase(SelectSeq(kwInput, IsAlnum))
            /\ \A i \in 1..Len(out) :
                   out[i] = Hyphen
                       => /\ 1 < i /\ i < Len(out)
                          /\ out[i + 1] # Hyphen
            /\ (\E i \in 1..Len(out) : out[i] = Hyphen)
                   => \E j \in 1..Len(kwInput) : kwInput[j] \in PunctChars \cup {Hyphen}
            /\ \A i \in 1..Len(out) : out[i] \in LowerChars \cup DigitChars \cup {Hyphen}

\* 'My Shop!!' has been normalized to 'myshop'
C6_Witness ==
    /\ kwOutput.done
    /\ kwInput = KwMyShop
    /\ kwOutput.keyword = <<"m", "y", "s", "h", "o", "p">>

\* C7: a call that got past validation never rejects; it returns one result per
\* candidate, in order, where the result of a candidate whose check threw has
\* the method 'Unknown', is not available and carries the message as its
\* error, and the other candidates have the result of their own check
C7_NeverRejectsAfterValidation ==
    \A c \in DOMAIN calls :
        /\ calls[c].status = "rejected"
               => /\ calls[c].error \in ValidationErrors
                  /\ calls[c].combos = <<>>
                  /\ calls[c].threw = {}
        /\ calls[c].status = "returned"
               => /\ Len(calls[c].results) = Len(calls[c].combos)
                  /\ \A idx \in 1..Len(calls[c].results) :
                         /\ calls[c].results[idx].domain =
                                domainName(calls[c].combos[idx].keyword,
                                           calls[c].combos[idx].tld)
                         /\ idx \in calls[c].threw
                                => /\ calls[c].results[idx].method = "Unknown"
                                   /\ ~calls[c].results[idx].available
                                   /\ calls[c].results[idx].error = <<ExceptionMessage>>
                         /\ idx \notin calls[c].threw
                                => calls[c].results[idx].method # "Unknown"

\* a call has returned although the check of one of its candidates threw, and
\* it holds the proper result of another candidate
C7_Witness ==
    \E c \in ReturnedCalls :
        /\ calls[c].threw # {}
        /\ \E idx \in 1..Len(calls[c].results) :
               /\ idx \notin calls[c].threw
               /\ calls[c].results[idx].method = "RDAP"

AllSpaces(str) == \A k \in 1..Len(str) : str[k] \in SpaceChars

\* a list that is empty or holds nothing but blank strings
NothingToCheck(list) == \A i \in 1..Len(list) : AllSpaces(list[i])

\* C8: a call whose keyword list or TLD list is empty or only holds blank
\* strings ends in a validation error without a single request, and leaves the
\* registry map, the two RDAP counters and the refresh flag as they were
C8_InvalidInputRejected ==
    [][\A c \in DOMAIN calls :
          (/\ calls[c].status = "idle"
           /\ calls'[c].status # "idle"
           /\ NothingToCheck(calls'[c].keywords) \/ NothingToCheck(calls'[c].tlds))
              => /\ calls'[c].status = "rejected"
                 /\ calls'[c].error \in ValidationErrors
                 /\ calls'[c].requests = 0
                 /\ calls'[c].batch = <<>>
                 /\ rdapServerMap' = rdapServerMap
                 /\ rdapErrorCount' = rdapErrorCount
                 /\ rdapTotalCount' = rdapTotalCount
                 /\ updateInProgress' = updateInProgress]_vars

\* a call with a list of blank strings only has been rejected
C8_Witness ==
    \E c \in DOMAIN calls :
        /\ calls[c].status = "rejected"
        /\ calls[c].keywords # <<>> /\ calls[c].tlds # <<>>
        /\ NothingToCheck(calls[c].keywords) \/ NothingToCheck(calls[c].tlds)
        /\ calls[c].requests = 0

\* C9: a call has at most batchSize candidate checks in flight
C9_BatchLimit ==
    \A c \in DOMAIN calls : InFlight(calls[c]) <= batchSize

\* a call with more candidates than a batch takes has a full batch in flight
C9_Witness ==
    \E c \in DOMAIN calls :
        /\ Len(calls[c].combos) > batchSize
        /\ InFlight(calls[c]) = batchSize

RECURSIVE TotalInFlight(_)
TotalInFlight(cs) ==
    IF cs = {} THEN 0
    ELSE LET c == CHOOSE x \in cs : TRUE
         IN  InFlight(calls[c]) + TotalInFlight(cs \ {c})

\* C10 as stated: over all calls of checkDomains that overlap, at most batchSize
\* candidate checks are in flight
C10_ProcessWideLimit == TotalInFlight(DOMAIN calls) <= batchSize

\* C10: the limit is one per call: with n calls of checkDomains under way at
\* most n * batchSize candidate checks are in flight, and nothing holds two
\* overlapping calls to batchSize between them
C10_LimitPerRunningCall ==
    TotalInFlight(DOMAIN calls) <= batchSize * Cardinality(RunningCalls)

\* two overlapping calls have more than batchSize checks in flight between them
C10_Witness ==
    /\ Cardinality(RunningCalls) = 2
    /\ TotalInFlight(DOMAIN calls) > batchSize

\* C11: within a call, the step that starts a batch after the first one leaves
\* the delay that followed the previous batch, and finds the result of every
\* candidate of the earlier batches in the result list; no candidate is under
\* way while a candidate of an earlier batch still lacks its result
C11_BatchesSequential ==
    [][\A c \in DOMAIN calls :
          /\ (/\ calls'[c].batch # <<>>
               /\ calls'[c].i > 0
               /\ (calls[c].batch = <<>> \/ calls[c].i # calls'[c].i))
                 => /\ calls[c].status = "delay"
                    /\ Len(calls[c].results) = calls'[c].i
                    /\ \A k \in 1..calls'[c].i :
                           /\ calls[c].results[k] # NoResult
                           /\ calls[c].results[k].domain =
                                  domainName(calls[c].combos[k].keyword,
                                             calls[c].combos[k].tld)
          /\ \A j \in 1..Len(calls'[c].batch) :
                 ((calls'[c].i + j - 1) \div batchSize) * batchSize
                     <= Len(calls'[c].results)]_vars

\* the second batch of a call is under way and the five results of the first
\* batch are in the list
C11_Witness ==
    \E c \in DOMAIN calls :
        /\ calls[c].i = batchSize
        /\ Len(calls[c].results) = batchSize
        /\ \E j \in 1..Len(calls[c].batch) : calls[c].batch[j].pc = "fetch"

(***************************************************************************)
(* The WHOIS query step by step: the lookup of the host, the connection,   *)
(* the data and the close of the socket are events of the network; the     *)
(* timeouts are the timers whoisQuery and checkSingleDomainRdap arm.       *)
(***************************************************************************)
WhoisChunks == { {"No match for"}, {"Domain Name:", "Registrar:"} }

\* the candidate j of call c has a WHOIS query at position pc
QueryAt(c, j, pc) ==
    /\ j \in 1..Len(calls[c].batch)
    /\ calls[c].batch[j].pc = "whois"
    /\ calls[c].batch[j].query.pc = pc

\* the promise of whoisQuery settles and checkDomains goes on behind its await
QuerySettles(c, j, outcome) ==
    /\ calls' = [calls EXCEPT ![c].batch[j] = WhoisStep(calls[c].batch[j], outcome)]
    /\ UNCHANGED <<registryVars, normVars>>

QueryMoves(c, j, query) ==
    /\ calls' = [calls EXCEPT ![c].batch[j].query = query]
    /\ UNCHANGED <<registryVars, normVars>>

\* lines 746-754 and 785-796: the lookup answers with an address; the socket is
\* created and the connect timer armed
DnsAnswers(c, j) ==
    /\ QueryAt(c, j, "resolving")
    /\ QueryMoves(c, j, [calls[c].batch[j].query EXCEPT !.pc = "connecting",
                                                         !.timer = "connect"])

\* lines 748-751 and 775-778: the lookup fails
DnsFails(c, j) ==
    /\ QueryAt(c, j, "resolving")
    /\ QuerySettles(c, j, [ok |-> FALSE, message |-> "Failed to resolve hostname"])

\* lines 741-743 and 775-778: the lookup's timer fires
DnsTimeout(c, j) ==
    /\ QueryAt(c, j, "resolving")
    /\ calls[c].batch[j].query.timer = "dns"
    /\ QuerySettles(c, j, [ok |-> FALSE, message |-> "Failed to resolve hostname"])

\* lines 801-818: connected; the connect timer is cleared, the query written
\* and the 5 s data timer armed
SocketConnects(c, j) ==
    /\ QueryAt(c, j, "connecting")
    /\ QueryMoves(c, j, [calls[c].batch[j].query EXCEPT !.pc = "connected",
                                                         !.timer = "data"])

\* lines 791-796: the connect timer fires; the socket is destroyed
ConnectTimeout(c, j) ==
    /\ QueryAt(c, j, "connecting")
    /\ calls[c].batch[j].query.timer = "connect"
    /\ QuerySettles(c, j, [ok |-> FALSE, message |-> "Connection timeout after 5s"])

\* lines 840-845: the socket reports an error, connecting or connected
SocketError(c, j) ==
    /\ j \in 1..Len(calls[c].batch)
    /\ calls[c].batch[j].pc = "whois"
    /\ calls[c].batch[j].query.pc \in {"connecting", "connected"}
    /\ QuerySettles(c, j, [ok |-> FALSE, message |-> "Failed to connect to WHOIS server"])

\* lines 820-832: a chunk arrives; the armed data timer is cleared, the chunk
\* appended, and the 1 s timer armed whose callback is socket.end()
DataArrives(c, j, chunk) ==
    /\ QueryAt(c, j, "connected")
    /\ QueryMoves(c, j, [calls[c].batch[j].query EXCEPT !.response = @ \cup chunk,
                                                         !.timer = "idle"])

\* lines 812-817: the 5 s data timer fires; the socket is destroyed
DataTimeout(c, j) ==
    /\ QueryAt(c, j, "connected")
    /\ calls[c].batch[j].query.timer = "data"
    /\ QuerySettles(c, j, [ok |-> FALSE, message |-> "Data receive timeout after 5s"])

\* lines 829-831: the 1 s timer fires; socket.end() closes this side of the
\* connection and nothing else
IdleTimeout(c, j) ==
    /\ QueryAt(c, j, "connected")
    /\ calls[c].batch[j].query.timer = "idle"
    /\ QueryMoves(c, j, [calls[c].batch[j].query EXCEPT !.ended = TRUE,
                                                         !.timer = "none"])

\* lines 834-838: the server has closed its side; 'close' resolves the promise
\* with what was received
SocketCloses(c, j) ==
    /\ QueryAt(c, j, "connected")
    /\ QuerySettles(c, j, [ok |-> TRUE, response |-> calls[c].batch[j].query.response])

\* checkSingleDomainRdap, lines 598-600: the 10 s timer of the request fires
RdapTimeout(c, j) == RdapResponds(c, j, [kind |-> "timeout"])

WhoisRequests == { [keywords |-> <<KwA>>, tlds |-> <<COM, ZZ>>] }

WhoisRdapOutcomes == { [kind |-> "404"], [kind |-> "status"], [kind |-> "fetch"] }

InitWhois ==
    /\ rdapServerMap = ensureCriticalTlds(<<>>, <<>>).map
    /\ tldConfigs = generateTldConfigsFromRdap(rdapServerMap)
    /\ lastUpdateTime = 0
    /\ updateInProgress = FALSE
    /\ rdapErrorCount = 0
    /\ rdapTotalCount = 0
    /\ update = NoUpdate
    /\ now = StartDay
    /\ initPc = "done"
    /\ cacheFile = CacheAbsent
    /\ calls = << IdleCall >>
    /\ InitNorm

NextWhois ==
    \/ \E c \in CallIds, r \in WhoisRequests :
           checkDomains(c, r.keywords, r.tlds, MaxCandidates)
    \/ \E c \in CallIds, j \in 1..batchSize, o \in WhoisRdapOutcomes : RdapResponds(c, j, o)
    \/ \E c \in CallIds, j \in 1..batchSize : RdapTimeout(c, j)
    \/ \E c \in CallIds, j \in 1..batchSize : DnsAnswers(c, j)
    \/ \E c \in CallIds, j \in 1..batchSize : DnsFails(c, j)
    \/ \E c \in CallIds, j \in 1..batchSize : DnsTimeout(c, j)
    \/ \E c \in CallIds, j \in 1..batchSize : SocketConnects(c, j)
    \/ \E c \in CallIds, j \in 1..batchSize : ConnectTimeout(c, j)
    \/ \E c \in CallIds, j \in 1..batchSize : SocketError(c, j)
    \/ \E c \in CallIds, j \in 1..batchSize, chunk \in WhoisChunks : DataArrives(c, j, chunk)
    \/ \E c \in CallIds, j \in 1..batchSize : DataTimeout(c, j)
    \/ \E c \in CallIds, j \in 1..batchSize : IdleTimeout(c, j)
    \/ \E c \in CallIds, j \in 1..batchSize : SocketCloses(c, j)
    \/ \E c \in CallIds : BatchResolved(c)

\* the timers that are armed fire and the resolved Promise.all is taken up;
\* what the servers do is up to them
FairWhois ==
    /\ \A j \in 1..batchSize : WF_vars(RdapTimeout(1, j))
    /\ \A j \in 1..batchSize : WF_vars(DnsTimeout(1, j))
    /\ \A j \in 1..batchSize : WF_vars(ConnectTimeout(1, j))
    /\ \A j \in 1..batchSize : WF_vars(DataTimeout(1, j))
    /\ \A j \in 1..batchSize : WF_vars(IdleTimeout(1, j))
    /\ WF_vars(BatchResolved(1))

SpecWhois == InitWhois /\ [][NextWhois]_vars /\ FairWhois

\* C12: with the timers firing, a call of checkDomains that is running returns,
\* whatever the RDAP and WHOIS servers do
C12_CheckDomainsReturns ==
    (calls[1].status = "running") ~> (calls[1].status = "returned")

\* C13: once initialize() is past its call of ensureCriticalTlds, and so after
\* it has completed and after every refresh, successful or failed, each of the
\* 15 critical TLDs has a non-empty server list in the registry map
C13_CriticalTldsHaveServers ==
    initPc \in {"updating", "done"} =>
        /\ Len(criticalTlds) = 15
        /\ \A n \in 1..Len(criticalTlds) :
               /\ MapHas(rdapServerMap, criticalTlds[n].tld)
               /\ MapGet(rdapServerMap, criticalTlds[n].tld) # <<>>

\* a refresh has succeeded on a bootstrap list that has its own server for com,
\* an empty list for net and a TLD that is not critical
C13_Witness ==
    /\ initPc = "done"
    /\ update = NoUpdate
    /\ lastUpdateTime = now
    /\ MapGet(rdapServerMap, COM) = <<"https://rdap.verisign.com/com/v1/">>
    /\ MapGet(rdapServerMap, NET) = <<"https://rdap.verisign.com/net/v1/">>
    /\ MapHas(rdapServerMap, ZZ)

\* no cache was loaded and no refresh has succeeded
NothingLoaded == lastUpdateTime = 0

\* C14: when initialize() has completed with the cache file absent or malformed
\* and the bootstrap source failing, getEnabledTlds() has an enabled entry for
\* each of the 15 critical TLDs
C14_MinimumConfiguration ==
    (initPc = "done" /\ NothingLoaded) =>
        \A n \in 1..Len(criticalTlds) :
            \E i \in 1..Len(getEnabledTlds) :
                /\ getEnabledTlds[i].name = criticalTlds[n].tld
                /\ getEnabledTlds[i].enabled

\* initialize() has completed on a cache file that is not JSON, the startup
\* refresh having failed
C14_Witness ==
    /\ initPc = "done"
    /\ NothingLoaded
    /\ cacheFile = CacheMalformed
    /\ update = NoUpdate
    /\ ~updateInProgress
    /\ Len(getEnabledTlds) = Len(criticalTlds)

\* C15: once the timeout of the startup refresh has fired, the refresh ends
\* and initialize() completes, also when the bootstrap source never responds
C15_StartupTimeoutEndsRefresh ==
    (initPc = "updating" /\ update.isStartup /\ update.aborted) ~> (initPc = "done")

\* C16: the step of initialize() that has read the cache file begins the
\* startup refresh if and only if the file gave no cache (absent, not JSON, no
\* timestamp) or its timestamp is more than 30 days before now; with a cache of
\* at most 30 days initialize() completes in that step without a refresh
C16_RefreshIffNoCacheOrStale ==
    [][initPc = "loading" /\ initPc' # "loading" =>
          LET noCache == cacheFile.kind # "json" \/ cacheFile.timestamp = 0
              attempted == /\ initPc' = "updating"
                           /\ updateInProgress'
                           /\ update'.pc = "fetching"
                           /\ update'.isStartup
              completed == /\ initPc' = "done"
                           /\ ~updateInProgress'
                           /\ update' = NoUpdate
          IN  /\ attempted <=> (noCache \/ now - cacheFile.timestamp > THIRTY_DAYS)
              /\ attempted \/ completed]_vars

\* initialize() has completed on a cache of exactly 30 days without a refresh
C16_Witness ==
    /\ initPc = "done"
    /\ cacheFile.kind = "json"
    /\ now - cacheFile.timestamp = THIRTY_DAYS
    /\ lastUpdateTime = cacheFile.timestamp
    /\ update = NoUpdate

(***************************************************************************)
(* The refresh scenario: the service after a first initialize() without    *)
(* cache and bootstrap and after ten checks that exhausted their servers.  *)
(* The route of the TLD list, which keeps a flag of its own, calls         *)
(* initialize() again; the periodic timer runs; checks go on.              *)
(***************************************************************************)
RefreshCacheFiles ==
    { CacheAbsent, CacheOf(StartDay - THIRTY_DAYS - 1, CachedServerMap) }

RefreshRequests == { [keywords |-> <<KwA>>, tlds |-> <<COM>>] }

RefreshRdapOutcomes == { [kind |-> "404"], [kind |-> "fetch"] }

RefreshWhoisOutcomes == { [ok |-> TRUE, response |-> {"No match for"}] }

InitRefresh ==
    /\ rdapServerMap = ensureCriticalTlds(<<>>, <<>>).map
    /\ tldConfigs = generateTldConfigsFromRdap(rdapServerMap)
    /\ lastUpdateTime = 0
    /\ updateInProgress = FALSE
    /\ rdapErrorCount = MinTotalForUpdate
    /\ rdapTotalCount = MinTotalForUpdate
    /\ update = NoUpdate
    /\ now = StartDay
    /\ initPc = "done"
    /\ cacheFile \in RefreshCacheFiles
    /\ calls = << IdleCall >>
    /\ InitNorm

\* initialize() is called on the service that is initialized already, and is
\* at its first await
InitializeAgain ==
    /\ initPc = "done"
    /\ initPc' = "loading"
    /\ UNCHANGED <<rdapServerMap, tldConfigs, lastUpdateTime, updateInProgress,
                   rdapErrorCount, rdapTotalCount, update, cacheFile, now,
                   calls, normVars>>

NextRefresh ==
    \/ InitializeAgain
    \/ InitializeLoaded
    \/ TimerRefresh
    \/ AbortTimer
    \/ \E resp \in FetchTldsResponses : UpdateFetched(resp)
    \/ \E written \in BOOLEAN : UpdateSaved(written)
    \/ \E c \in CallIds, r \in RefreshRequests :
           checkDomains(c, r.keywords, r.tlds, MaxCandidates)
    \/ \E c \in CallIds, j \in 1..batchSize, o \in RefreshRdapOutcomes : RdapResponds(c, j, o)
    \/ \E c \in CallIds, j \in 1..batchSize, o \in RefreshWhoisOutcomes : WhoisResponds(c, j, o)
    \/ \E c \in CallIds : BatchResolved(c)
    \/ \E c \in CallIds : RouteResponds(c, MaxFlowCalls)

SpecRefresh == InitRefresh /\ [][NextRefresh]_vars

\* C17: at most one execution of the refresh is under way, the flag is set
\* exactly while one is, and while one is no step starts another: a request of
\* the timer changes nothing, and a step that is not the refresh's own leaves
\* the flag set and the refresh where it is
C17_OneRefreshAtATime ==
    /\ [](/\ update.bodies <= 1
          /\ updateInProgress <=> update.bodies = 1
          /\ update.pc = "idle" <=> update.bodies = 0)
    /\ [][updateInProgress =>
             /\ update'.bodies <= update.bodies
             /\ TimerRefresh =>
                    UNCHANGED <<rdapServerMap, tldConfigs, lastUpdateTime,
                                updateInProgress, rdapErrorCount, rdapTotalCount,
                                initPc, cacheFile, now, calls>>
             /\ update'.bodies = update.bodies =>
                    /\ updateInProgress'
                    /\ update'.isStartup = update.isStartup
                    /\ update'.pc = update.pc \/ (update.pc = "fetching" /\ update'.pc = "saving")]_vars

\* with the error rate over its threshold, a refresh begun by the timer or by
\* the error rate is at its fetch and has seen a request turned away, while a
\* second initialize() is at its await of the cache
C17_Witness ==
    /\ updateInProgress
    /\ update.pc = "fetching"
    /\ ~update.isStartup
    /\ update.refused
    /\ rdapTotalCount > MinTotalForUpdate
    /\ initPc = "loading"

\* C18: a step in which a refresh returns failure, because its fetch has failed
\* or brought no TLD or because it found another refresh under way, leaves the
\* server map, the time of the last refresh and the cache file as they were,
\* and the config list too.  initialize() goes on in the same step when it was
\* the caller: behind a refresh that failed it derives the config list from the
\* unchanged map (line 68); a second initialize() whose request is turned away
\* has loaded the cache just before it called
C18_FailedRefreshChangesNothing ==
    [][(\/ update.pc = "fetching" /\ update'.pc = "idle"
        \/ updateInProgress /\ ~update.refused /\ update'.refused)
          => /\ cacheFile' = cacheFile
             /\ initPc = "loading" \/ UNCHANGED <<rdapServerMap, lastUpdateTime>>
             /\ IF initPc' = initPc THEN UNCHANGED tldConfigs
                ELSE tldConfigs' = generateTldConfigsFromRdap(rdapServerMap')]_vars

\* the eleventh exhausted check has asked for a refresh, and no refresh is
\* under way nor has one succeeded: one has returned failure
C18_Witness ==
    /\ rdapTotalCount > MinTotalForUpdate
    /\ ~updateInProgress
    /\ update = NoUpdate
    /\ lastUpdateTime = 0
    /\ cacheFile = CacheAbsent

\* C19: every result with method 'RDAP', available = false and no error carries
\* RDAP data, the result for a 200 response whose body is not JSON included
C19_RdapDataPresent ==
    \A r \in AllResults :
        (r.method = "RDAP" /\ ~r.available /\ r.error = NoError)
            => r.rdapData.kind = "json"

\* the dates of the registration events of a response
RegistrationDates(rdapData) ==
    {rdapData.events[i].eventDate :
        i \in {n \in 1..Len(rdapData.events) :
                  rdapData.events[n].eventAction = "registration"}}

\* C20: a result made from a 200 response with a registration event has that
\* event's date as registrationDate and the whole days from that date to now
\* as domainAge; domainAge is never negative, dates later than now included,
\* and is set exactly when registrationDate is
C20_DomainAgeWholeDays ==
    \A r \in AllResults :
        (r.method = "RDAP" /\ r.rdapData.kind = "json") =>
            /\ "domainAge" \in DOMAIN r.fields <=> "registrationDate" \in DOMAIN r.fields
            /\ RegistrationDates(r.rdapData) # {} =>
                   /\ "registrationDate" \in DOMAIN r.fields
                   /\ r.fields["registrationDate"] \in RegistrationDates(r.rdapData)
                   /\ r.fields["domainAge"] = now - r.fields["registrationDate"]
                   /\ r.fields["domainAge"] >= 0

(***************************************************************************)
(* The TLD list scenario: the service from construction on, its refreshes, *)
(* and callers of getEnabledTlds(); no checks.                             *)
(***************************************************************************)
InitTlds ==
    /\ InitRegistry
    /\ initPc = "new"
    /\ cacheFile \in InitialCacheFiles
    /\ calls = <<>>
    /\ InitNorm

NextTlds ==
    \/ InitializeCall
    \/ InitializeLoaded
    \/ TimerRefresh
    \/ AbortTimer
    \/ \E resp \in FetchTldsResponses : UpdateFetched(resp)
    \/ \E written \in BOOLEAN : UpdateSaved(written)
    \/ GetEnabledTlds

SpecTlds == InitTlds /\ [][NextTlds]_vars

ExhaustRequests ==
    { [keywords |-> <<KwA, KwC>>, tlds |-> <<NET, ORG, IO>>],
      [keywords |-> <<KwA>>, tlds |-> <<COM, NET>>] }

ExhaustRdapOutcomes == { [kind |-> "404"], [kind |-> "fetch"] }

ExhaustWhoisOutcomes == { [ok |-> TRUE, response |-> {"No match for"}] }

NextExhaust ==
    \/ \E c \in CallIds, r \in ExhaustRequests :
           checkDomains(c, r.keywords, r.tlds, MaxCandidates)
    \/ \E c \in CallIds, j \in 1..batchSize, o \in ExhaustRdapOutcomes : RdapResponds(c, j, o)
    \/ \E c \in CallIds, j \in 1..batchSize, o \in ExhaustWhoisOutcomes : WhoisResponds(c, j, o)
    \/ \E c \in CallIds : BatchResolved(c)
    \/ \E c \in CallIds : DelayElapsed(c)

SpecExhaust == InitBatch /\ [][NextExhaust]_vars

\* every TLD of the scenario has servers and a config, so the checks that
\* exhausted their servers are those that went on to WHOIS: the candidates at
\* their WHOIS query and the results that come from the fallback
FallbackCount(call) ==
    Cardinality({k \in 1..Len(call.results) :
                    call.results[k].method = "WHOIS (RDAP fallback)"})
    + Cardinality({j \in 1..Len(call.batch) :
                      \/ call.batch[j].pc = "whois"
                      \/ /\ call.batch[j].pc = "done"
                         /\ call.batch[j].result.method = "WHOIS (RDAP fallback)"})

RECURSIVE SumFallbacks(_)
SumFallbacks(cs) ==
    IF cs = {} THEN 0
    ELSE LET c == CHOOSE x \in cs : TRUE
         IN  FallbackCount(calls[c]) + SumFallbacks(cs \ {c})

\* C23: a check that has exhausted its servers has the result available =
\* false, method 'RDAP', with the error made of one entry per server, in the
\* order of the list; each such check adds exactly one to the error counter
\* and one to the total counter, so that both counters equal the number of
\* exhausted checks, however the checks of the batches and calls interleave
C23_ExhaustedCountedOnce ==
    /\ [](/\ rdapErrorCount = SumFallbacks(DOMAIN calls)
          /\ rdapTotalCount = SumFallbacks(DOMAIN calls)
          /\ \A c \in DOMAIN calls : \A j \in 1..Len(calls[c].batch) :
                 LET cand == calls[c].batch[j]
                 IN  cand.pc = "whois" =>
                         /\ ~cand.result.available
                         /\ cand.result.method = "RDAP"
                         /\ Len(cand.errors) = Len(cand.servers)
                         /\ \A n \in 1..Len(cand.servers) :
                                cand.errors[n] = <<"RDAP fetch error for", cand.servers[n]>>
                         /\ cand.result.error =
                                <<"All RDAP servers failed:">> \o JoinErrors(cand.errors))
    /\ [][/\ rdapErrorCount' - rdapErrorCount \in {0, 1}
          /\ rdapTotalCount' - rdapTotalCount = rdapErrorCount' - rdapErrorCount]_vars

\* four checks have exhausted their servers: three of the first batch of a
\* call and the one of its second batch, whose WHOIS query is under way
C23_Witness ==
    /\ rdapErrorCount = 4
    /\ \E c \in DOMAIN calls :
           /\ calls[c].i = batchSize
           /\ FallbackCount(calls[c]) = 4
           /\ \E j \in 1..Len(calls[c].batch) : calls[c].batch[j].pc = "whois"

\* C24: the total counter counts every RDAP check that contacted servers, the
\* one decided by a 200 or a 404 as well as the exhausted one, and the error
\* counter only the exhausted one: the answer that ends a check adds one to
\* the total, and one to the errors exactly when it exhausts the servers
C24_TotalCountsEveryCheck ==
    [][\A c \in DOMAIN calls : \A j \in 1..batchSize : \A o \in RefreshRdapOutcomes :
           RdapResponds(c, j, o) =>
               LET cand == calls[c].batch[j]
                   ends == o.kind \in {"404", "200"} \/ Exhausts(cand, o)
               IN  /\ rdapTotalCount' = rdapTotalCount + (IF ends THEN 1 ELSE 0)
                   /\ rdapErrorCount' =
                          rdapErrorCount + (IF Exhausts(cand, o) THEN 1 ELSE 0)]_vars

\* C25: a candidate goes from its RDAP check to its end, or from its RDAP
\* check to one WHOIS query and from there to its end.  The WHOIS query is
\* issued only behind an RDAP result with an error and only for a TLD whose
\* config has server and pattern; a candidate at its WHOIS query or at its end
\* never returns to RDAP, and one at its end stays as it is; an RDAP result
\* without error, and an RDAP error for a TLD without config, is the
\* candidate's result as RDAP made it
C25_CandidatePath ==
    [][\A c \in DOMAIN calls' : \A j \in 1..Len(calls'[c].batch) :
           LET after == calls'[c].batch[j]
               same == /\ c \in DOMAIN calls
                       /\ calls[c].i = calls'[c].i
                       /\ calls[c].served = calls'[c].served
                       /\ j \in 1..Len(calls[c].batch)
               tldConfig == FindConfig(tldConfigs, after.tld)
               hasConfig == tldConfig.server # "" /\ tldConfig.availablePattern # ""
               issued == /\ after.result.error # NoError
                         /\ after.result.method = "RDAP"
                         /\ ~after.result.available
                         /\ hasConfig
                         /\ after.whoisServer = tldConfig.server
                         /\ after.whoisPattern = tldConfig.availablePattern
           IN  IF same
               THEN LET cand == calls[c].batch[j]
                    IN  CASE cand.pc = "fetch" ->
                               /\ after.pc \in {"fetch", "whois", "done"}
                               /\ after.pc = "whois" => issued
                               /\ after.pc = "done" =>
                                      /\ after.result.method \in {"RDAP", "Unknown"}
                                      /\ after.result.domain = cand.domain
                                      /\ (after.result.method = "RDAP"
                                             /\ after.result.error # NoError) =>
                                             /\ ~hasConfig
                                             /\ after.result.error =
                                                    <<"All RDAP servers failed:">>
                                                        \o JoinErrors(after.errors)
                          [] cand.pc = "whois" ->
                               /\ after.pc \in {"whois", "done"}
                               /\ after.pc = "whois" => after.result = cand.result
                               /\ after.pc = "done" =>
                                      /\ after.result.method = "WHOIS (RDAP fallback)"
                                      /\ after.result.domain = cand.domain
                          [] OTHER -> after = cand
               ELSE /\ after.pc \in {"fetch", "whois", "done"}
                    /\ after.pc = "fetch" => (after.k = 1 /\ after.errors = <<>>)
                    /\ after.pc = "whois" => issued
                    /\ after.pc = "done" =>
                           /\ ~hasConfig
                           /\ after.result =
                                  Result(after.domain, after.tld, FALSE, "RDAP",
                                         <<"No RDAP servers available for TLD">>,
                                         NoRdapData, NoFields)]_vars

\* the RDAP check of a candidate exhausted the two servers of its TLD, the
\* WHOIS query was issued and has answered: the candidate is at its end with
\* the result of the fallback
C25_Witness ==
    \E c \in DOMAIN calls : \E j \in 1..Len(calls[c].batch) :
        /\ calls[c].batch[j].pc = "done"
        /\ calls[c].batch[j].result.method = "WHOIS (RDAP fallback)"
        /\ calls[c].batch[j].result.available
        /\ Len(calls[c].batch[j].errors) = 2

\* C26: the hard data-receive timeout that is armed when the request is
\* written stays in force until the query completes: as long as a query is
\* connected, the timer whose callback destroys the socket and rejects is
\* armed, whatever has arrived
C26_HardTimeoutInForce ==
    \A c \in DOMAIN calls : \A j \in 1..Len(calls[c].batch) :
        QueryAt(c, j, "connected") => calls[c].batch[j].query.timer = "data"

(***************************************************************************)
(* The routes scenario: the two routes receive their first requests on the *)
(* new service; each initializes the service through its own               *)
(* initializeService, and checks run on the service once it is             *)
(* initialized.                                                            *)
(***************************************************************************)
InitRoutes ==
    /\ InitRegistry
    /\ initPc = "new"
    /\ cacheFile \in RefreshCacheFiles
    /\ calls = << IdleCall >>
    /\ InitNorm

NextRoutes ==
    \/ \E r \in Routes : RouteInitializes(r)
    \/ \E r \in Routes : RouteInitialized(r)
    \/ InitializeLoaded
    \/ TimerRefresh
    \/ AbortTimer
    \/ \E resp \in FetchTldsResponses : UpdateFetched(resp)
    \/ \E written \in BOOLEAN : UpdateSaved(written)
    \/ \E c \in CallIds, r \in RefreshRequests :
           checkDomains(c, r.keywords, r.tlds, MaxCandidates)
    \/ \E c \in CallIds, j \in 1..batchSize, o \in RefreshRdapOutcomes : RdapResponds(c, j, o)
    \/ \E c \in CallIds, j \in 1..batchSize, o \in RefreshWhoisOutcomes : WhoisResponds(c, j, o)
    \/ \E c \in CallIds : BatchResolved(c)
    \/ \E c \in CallIds : RouteResponds(c, MaxFlowCalls)

SpecRoutes == InitRoutes /\ [][NextRoutes]_vars

\* C27: initialize() is executed once per process: whatever the order of the
\* first requests to the two routes, the routes begin at most one execution of
\* domainCheckService.initialize()
C27_InitializeRunsOnce == routes.runs <= 1

(***************************************************************************)
(* The merge scenario: initialize() and refreshes one after the other, on  *)
(* bootstrap data that differ from one refresh to the next.                *)
(***************************************************************************)
MergeResponses ==
    FetchTldsResponses \cup
    { [success |-> TRUE,
       data |-> << [name |-> ORG, rdapServers |-> <<"https://rdap.bootstrap.example/org/">>],
                   [name |-> SHOP, rdapServers |-> <<>>] >>] }

NextMerge ==
    \/ InitializeCall
    \/ InitializeLoaded
    \/ TimerRefresh
    \/ AbortTimer
    \/ \E resp \in MergeResponses : UpdateFetched(resp)
    \/ \E written \in BOOLEAN : UpdateSaved(written)

SpecMerge == InitTlds /\ [][NextMerge]_vars

\* the list the bootstrap data carry for a TLD: that of its last entry with
\* servers, <<>> when it has none
BootstrapServers(data, tld) ==
    LET with == {i \in 1..Len(data) :
                    data[i].name = tld /\ Len(data[i].rdapServers) > 0}
    IN  IF with = {} THEN <<>>
        ELSE data[CHOOSE i \in with : \A k \in with : k <= i].rdapServers

\* the hardcoded list of a critical TLD, <<>> for any other TLD
CriticalServers(tld) ==
    IF \E n \in 1..Len(criticalTlds) : criticalTlds[n].tld = tld
    THEN criticalTlds[CHOOSE n \in 1..Len(criticalTlds) : criticalTlds[n].tld = tld].servers
    ELSE <<>>

C29_ResultsInCandidateOrder ==
    \A c \in DOMAIN calls :
        LET call == calls[c]
            K == ValidStrings(call.keywords)
            T == ValidStrings(call.tlds)
        IN  /\ (call.combos # <<>>
                   /\ \A a \in 1..Len(K) : normalizeKeyword(K[a]) # <<>>) =>
                   /\ Len(call.combos) = Len(K) * Len(T)
                   /\ \A a \in 1..Len(K) : \A b \in 1..Len(T) :
                          call.combos[(a - 1) * Len(T) + b] =
                              [keyword |-> normalizeKeyword(K[a]), tld |-> T[b]]
            /\ Len(call.results) <= Len(call.combos)
            /\ \A n \in 1..Len(call.results) :
                   /\ call.results[n].domain =
                          domainName(call.combos[n].keyword, call.combos[n].tld)
                   /\ call.results[n].tld = call.combos[n].tld
                   /\ call.results[n].method = "Unknown" <=> n \in call.threw
            /\ \A j \in 1..Len(call.batch) :
                   call.batch[j].domain =
                       domainName(call.combos[call.i + j].keyword,
                                  call.combos[call.i + j].tld)
            /\ (call.status = "returned" /\ call.error = "") =>
                   Len(call.results) = Len(call.combos)

\* a call with six candidates has returned; the check of its second candidate
\* threw and that of its first did not
C29_Witness ==
    \E c \in DOMAIN calls :
        /\ calls[c].status = "returned"
        /\ Len(calls[c].results) = 6
        /\ calls[c].threw = {2}
        /\ calls[c].results[1].available
        /\ calls[c].results[2].method = "Unknown"
        /\ calls[c].results[1].domain # calls[c].results[2].domain

(***************************************************************************)
(* The restart scenario: the process begins without a usable cache file,   *)
(* refreshes, and is started anew a day later, with the file the earlier   *)
(* process left behind.                                                    *)
(***************************************************************************)
MaxRestarts == 2

\* JSON without serverMap: !cache.serverMap holds, as for a file of kind other
\* than "json"
CacheWithoutServerMap == [kind |-> "json without serverMap", timestamp |-> StartDay - 1]

\* JSON without timestamp: !cache.timestamp holds, as for the timestamp 0
CacheWithoutTimestamp == CacheOf(0, CachedServerMap)

UnusableCacheFiles ==
    { CacheAbsent, CacheMalformed, CacheWithoutTimestamp, CacheWithoutServerMap }

InitRestart ==
    /\ InitRegistry
    /\ initPc = "new"
    /\ cacheFile \in UnusableCacheFiles
    /\ calls = <<>>
    /\ InitNorm

\* the process ends and a new one begins: a new service instance, the file
\* as it is
Restart ==
    /\ now < StartDay + MaxRestarts
    /\ rdapServerMap' = <<>>
    /\ tldConfigs' = <<>>
    /\ lastUpdateTime' = 0
    /\ updateInProgress' = FALSE
    /\ rdapErrorCount' = 0
    /\ rdapTotalCount' = 0
    /\ update' = NoUpdate
    /\ initPc' = "new"
    /\ now' = now + 1
    /\ UNCHANGED <<cacheFile, calls, normVars>>

NextRestart ==
    \/ InitializeCall
    \/ InitializeLoaded
    \/ TimerRefresh
    \/ AbortTimer
    \/ \E resp \in MergeResponses : UpdateFetched(resp)
    \/ \E written \in BOOLEAN : UpdateSaved(written)
    \/ Restart

SpecRestart == InitRestart /\ [][NextRestart]_vars

\* C30: the cache round trip.  The file changes only at the end of a
\* successful refresh and is then the snapshot of map and timestamp; a new
\* instance that loads such a file has the map and the timestamp that were
\* saved.  A file that is absent, is not JSON or lacks timestamp or serverMap
\* makes the load return false and leaves map and timestamp as they are, on
\* the new instance (where initialize() goes on with the critical TLDs) and
\* on every state the service can be in
C30_CacheRoundTrip ==
    /\ [](\A f \in UnusableCacheFiles :
              loadCachedRdapData(f, rdapServerMap, lastUpdateTime) =
                  [loaded |-> FALSE, lastUpdateTime |-> lastUpdateTime,
                   map |-> rdapServerMap])
    /\ [][/\ cacheFile' # cacheFile =>
                 /\ update.pc = "saving"
                 /\ cacheFile' = CacheOf(lastUpdateTime, rdapServerMap)
          /\ (initPc = "loading" /\ initPc' \in {"updating", "done"}) =>
                 IF cacheFile \in UnusableCacheFiles
                 THEN /\ lastUpdateTime' = lastUpdateTime
                      /\ rdapServerMap' =
                             ensureCriticalTlds(rdapServerMap, tldConfigs).map
                      /\ initPc' = "updating"
                 ELSE /\ lastUpdateTime' = cacheFile.timestamp
                      /\ rdapServerMap' = cacheFile.serverMap]_vars

\* a process refreshed and wrote the file; the process started a day later
\* has loaded it and has the map and the timestamp of the file
C30_Witness ==
    /\ initPc = "done"
    /\ now = StartDay + 1
    /\ cacheFile.kind = "json"
    /\ cacheFile.timestamp = StartDay
    /\ lastUpdateTime = cacheFile.timestamp
    /\ rdapServerMap = cacheFile.serverMap
    /\ MapHas(rdapServerMap, ZZ)

====
